---- MODULE Spec2Model ----
(***************************************************************************)
(* The GitHub onboarding part of the live editor                           *)
(* (src/src/ts/editor/ui/parts/onboarding/github.ts) as a state machine:   *)
(* the api identity (organization / project / branch), the lists the part  *)
(* caches, the browser history it pushes to and is restored from, the      *)
(* requests in flight and the view produced by the last render.            *)
(*                                                                         *)
(* JavaScript is single threaded: every handler runs to completion.  A     *)
(* handler's this.render() dispatches the render event                     *)
(* (src/src/projectType/state.ts:29), which is modelled by the flag        *)
(* renderRequested; the render itself is the action Render, and no other   *)
(* event is handled while a requested render has not run.                  *)
(*                                                                         *)
(* The specifications: Spec is the onboarding part from its construction,  *)
(* SpecRecorded the same with the history variables held and failed kept,  *)
(* SpecProgress the same without failing requests, SpecOpened the same     *)
(* constructed on the page of an organization, and SpecHistory the part    *)
(* with history entries it did not push; SpecFilter is the list filter of  *)
(* the three list steps, and SpecRecent the recent projects, applied to    *)
(* lists and texts drawn from bounded sets; SpecEditor is                  *)
(* LiveEditor.render() (src/src/editor/editor.ts) with its reentrant       *)
(* calls; SpecMedia is the preview meta of the image field                 *)
(* (src/unnamed/part_001); SpecClean is DeepClean                          *)
(* (src/src/utility/deepClean.ts).                                         *)
(***************************************************************************)
EXTENDS Integers, Sequences, FiniteSets

VARIABLES
    auth,             \* what api.checkAuth() answers
    organization,     \* api.organization
    project,          \* api.project
    branch,           \* api.branch
    organizations,    \* this.organizations
    installation,     \* this.installation
    listFilter,       \* this.listFilter
    repositories,     \* this.repositories
    repositoriesId,   \* this.repositoriesId
    workspaces,       \* this.workspaces
    workspacesId,     \* this.workspacesId
    entries,          \* the session history: the state object of each entry
    cursor,           \* the position of the current history entry
    pending,          \* the api requests in flight: request -> how many
    renderRequested,  \* a render event was dispatched and has not run yet
    shown,            \* what the last evaluation of template() produced
    last,             \* the handler that ran last, with what it was given
                      \* and how many onboarding-update events it dispatched
    held,             \* history variable: for each history entry, the
                      \* identity right after the selection that pushed it
                      \* (kept when recording)
    failed,           \* history variable: the requests whose catch-callback
                      \* ran since the user's last event (kept when
                      \* recording)
    editor,           \* the LiveEditor: isRendering, isPendingRender and the
                      \* render() calls that have not returned
    storage,          \* the recent projects storage holds (STORAGE_RECENT)
    media,            \* the image field: this.meta, currentValue._meta and
                      \* the preview meta its template shows
    uncaught,         \* the errors a handler raised and nothing caught
    cleaner,          \* a DeepClean: its config, the value given to clean()
                      \* and what clean() returned
    recording         \* whether the history variables held and failed are kept

vars == <<auth, organization, project, branch, organizations, installation,
          listFilter, repositories, repositoriesId, workspaces, workspacesId,
          entries, cursor, pending, renderRequested, shown, last,
          held, failed, editor, storage, media, uncaught, cleaner,
          recording>>

(***************************************************************************)
(* Bounds of the model.                                                    *)
(***************************************************************************)
MaxHistory == 3   \* history entries kept in the session
MaxPending == 2   \* requests in flight at one time
MaxRenders == 4   \* template evaluations one render() call leads to
MaxRequests == 3  \* render() calls made during one template evaluation
MaxLen == 2       \* items of the short lists the filter is applied to
MaxRecent == 3    \* recent projects storage holds
MaxDim == 12      \* pixels of a side of a medium
MaxDepth == 3     \* records and arrays nested in a value given to clean()

(***************************************************************************)
(* JavaScript values.                                                      *)
(***************************************************************************)
\* undefined, for the optional strings and the optional lists
Undefined == "<undefined>"

\* undefined, for the optional installation record
NoInstallation == [undefined |-> TRUE]

\* undefined, for the optional numeric id (installation ids are positive)
NoId == 0

\* !x for an optional string
Falsy(x) == x = Undefined \/ x = ""

\* x || undefined
OrUndefined(x) == IF Falsy(x) THEN Undefined ELSE x

\* this.installation?.id
InstallationId(inst) == IF inst = NoInstallation THEN NoId ELSE inst.id

\* s.includes(f)
Includes(s, f) ==
    \E i \in 0..(Len(s) - Len(f)) : SubSeq(s, i + 1, i + Len(f)) = f

\* s.startsWith(p)
StartsWith(s, p) == Len(p) <= Len(s) /\ SubSeq(s, 1, Len(p)) = p

\* s.replace(p, ''): the first occurrence of p is removed
RemoveFirst(s, p) ==
    IF ~Includes(s, p) THEN s
    ELSE LET i == CHOOSE k \in 0..(Len(s) - Len(p)) :
                     /\ SubSeq(s, k + 1, k + Len(p)) = p
                     /\ \A j \in 0..(k - 1) : SubSeq(s, j + 1, j + Len(p)) # p
         IN  SubSeq(s, 1, i) \o SubSeq(s, i + Len(p) + 1, Len(s))

\* f.trim() === ''
IsBlank(f) == \A i \in 1..Len(f) : SubSeq(f, i, i) = " "

(***************************************************************************)
(* The world outside the part: what the api answers and what the storage   *)
(* holds.  "zeta" is an organization the GitHub app is not installed for.  *)
(***************************************************************************)
\* the answer of getOrganizations()
Installations ==
    << [org |-> "acme", id |-> 1], [org |-> "beta", id |-> 2] >>

\* the answer of getRepositories(id)
RepositoriesOf(id) ==
    IF id = 1 THEN << [org |-> "acme", repo |-> "site"] >>
    ELSE IF id = 2 THEN << [org |-> "beta", repo |-> "site"] >>
    ELSE <<>>

\* the answer of getWorkspaces(organization, project)
WorkspacesOf(org, proj) ==
    IF org = "acme" /\ proj = "site"
    THEN << [name |-> "main"], [name |-> "master"], [name |-> "staging"],
            [name |-> "workspace/a"], [name |-> "workspace/b"],
            [name |-> "workspace/c"], [name |-> "workspace/d"],
            [name |-> "workspace/e"], [name |-> "workspace/f"],
            [name |-> "workspace/g"] >>
    ELSE IF org = "beta" /\ proj = "site"
    THEN << [name |-> "main"], [name |-> "staging"] >>
    ELSE << [name |-> "master"] >>

\* storage.getItemRecord(STORAGE_RECENT).projects
RecentProjects == << "acme/site", "zeta/docs" >>

\* what the user can type into the filter input
FilterInputs == {"ma"}

\* the identity the api is constructed with and the state object the
\* current history entry already has (a reloaded page keeps it)
InitialIdentities ==
    { [organization |-> Undefined, project |-> Undefined, state |-> "none"],
      [organization |-> "zeta", project |-> Undefined, state |-> "none"],
      [organization |-> "acme", project |-> Undefined, state |-> "kept"] }

MIN_FILTER_LENGTH == 9

(***************************************************************************)
(* Requests and the history.                                               *)
(***************************************************************************)
GetOrganizations == [api |-> "getOrganizations"]
GetRepositories(id) == [api |-> "getRepositories", id |-> id]
GetWorkspaces(org, proj) ==
    [api |-> "getWorkspaces", organization |-> org, project |-> proj]

\* every request the part can issue in this world
Requests ==
    {GetOrganizations}
    \cup {GetRepositories(Installations[i].id) : i \in 1..Len(Installations)}
    \cup {GetWorkspaces(o, p) : o \in {"acme", "beta", "zeta"},
                                p \in {"site", "docs"}}

InFlight == LET RECURSIVE Sum(_)
                Sum(S) == IF S = {} THEN 0
                          ELSE LET r == CHOOSE x \in S : TRUE
                               IN  pending[r] + Sum(S \ {r})
            IN  Sum(Requests)

\* the requests of `reqs` (a sequence) are sent
Issue(reqs) ==
    [r \in Requests |->
        pending[r] + Cardinality({i \in 1..Len(reqs) : reqs[i] = r})]

\* the state object of a history entry
Entry(org, repo, br) ==
    [onboarding |-> TRUE, organization |-> org, repository |-> repo,
     branch |-> br]

\* an entry of the session history with no state object: evt.state is null
NoState == [state |-> "null"]

\* the state object of an entry something else pushed: it has no onboarding
\* key, so onboarding === true is false
ForeignState ==
    [onboarding |-> FALSE, organization |-> Undefined,
     repository |-> Undefined, branch |-> Undefined]

\* history.pushState(state, ...): the forward entries are dropped
PushState(state) ==
    /\ cursor < MaxHistory
    /\ entries' = Append(SubSeq(entries, 1, cursor), state)
    /\ cursor' = cursor + 1

(***************************************************************************)
(* template(): the view is evaluated from the state; evaluating it resets  *)
(* stale lists and starts the loads of missing ones.  Each template gives  *)
(* the fields of the part it leaves changed, the requests it sent, whether *)
(* it asked for another render, and the view.                              *)
(***************************************************************************)
\* template() with the project looked at before the organization
StepProjectFirst ==
    IF ~auth THEN "login"
    ELSE IF Falsy(project) /\ repositories # Undefined THEN "repositories"
    ELSE IF Falsy(organization) THEN "organizations"
    ELSE IF Falsy(project) THEN "repositories"
    ELSE "workspaces"

\* the step template() takes
Step ==
    IF ~auth THEN "login"
    ELSE IF Falsy(organization) THEN "organizations"
    ELSE IF Falsy(project) THEN "repositories"
    ELSE "workspaces"

\* useFilter from MIN_FILTER_LENGTH items on
UseFilterAtLeast(list) ==
    list # Undefined /\ Len(list) >= MIN_FILTER_LENGTH

\* useFilter of the three list templates
UseFilter(list) == list # Undefined /\ Len(list) > MIN_FILTER_LENGTH

\* filtered without the test of listFilter.trim()
FilteredUntrimmed(list, name) ==
    IF list # Undefined /\ ~Falsy(listFilter)
    THEN SelectSeq(list, LAMBDA x : Includes(x[name], listFilter))
    ELSE list

\* filtered of the three list templates; name is the field of an item that
\* holds its display name (org.org, repo.repo, workspace.name)
Filtered(list, name) ==
    IF list # Undefined /\ ~Falsy(listFilter) /\ ~IsBlank(listFilter)
    THEN SelectSeq(list, LAMBDA x : Includes(x[name], listFilter))
    ELSE list

\* filtered || []
OrEmpty(list) == IF list = Undefined THEN <<>> ELSE list

View(view, list, items, recent) ==
    [view |-> view,
     organization |-> IF view \in {"repositories", "workspaces"}
                      THEN organization ELSE Undefined,
     project |-> IF view = "workspaces" THEN project ELSE Undefined,
     loading |-> view # "login" /\ list = Undefined,
     list |-> list,
     items |-> OrEmpty(items),
     useFilter |-> UseFilter(list),
     empty |-> list # Undefined /\ Len(list) = 0,
     recent |-> recent]

TemplateLogin ==
    [installation |-> installation, repositories |-> repositories,
     workspaces |-> workspaces, requests |-> <<>>, render |-> FALSE,
     shown |-> View("login", Undefined, Undefined, <<>>)]

\* templateOrganizations() that loads the organizations at every evaluation
TemplateOrganizationsReload ==
    [installation |-> installation, repositories |-> repositories,
     workspaces |-> workspaces,
     requests |-> <<GetOrganizations>>,
     render |-> FALSE,
     shown |-> View("organizations", organizations,
                    Filtered(organizations, "org"), <<>>)]

TemplateOrganizations ==
    [installation |-> installation, repositories |-> repositories,
     workspaces |-> workspaces,
     requests |-> IF organizations = Undefined THEN <<GetOrganizations>>
                  ELSE <<>>,
     render |-> FALSE,
     shown |-> View("organizations", organizations,
                    Filtered(organizations, "org"), <<>>)]

\* loadRepositories() without the answer for an organization that is not
\* installed: the organizations are taken to be still loading
LoadRepositoriesNoNotice ==
    LET first == IF organizations = Undefined THEN <<GetOrganizations>>
                 ELSE <<>>
        search == /\ installation = NoInstallation
                  /\ ~Falsy(organization)
                  /\ organizations # Undefined
        found == {i \in 1..Len(organizations) :
                     organizations[i].org = organization}
        inst == IF search /\ found # {}
                THEN organizations[CHOOSE i \in found :
                                       \A j \in found : i <= j]
                ELSE installation
    IN  IF inst = NoInstallation
        THEN [installation |-> inst, repositories |-> Undefined,
              requests |-> first, render |-> FALSE]
        ELSE [installation |-> inst, repositories |-> Undefined,
              requests |-> first \o <<GetRepositories(inst.id)>>,
              render |-> FALSE]

\* loadRepositories(), called with this.repositories undefined
LoadRepositories ==
    LET first == IF organizations = Undefined THEN <<GetOrganizations>>
                 ELSE <<>>
        search == /\ installation = NoInstallation
                  /\ ~Falsy(organization)
                  /\ organizations # Undefined
        found == {i \in 1..Len(organizations) :
                     organizations[i].org = organization}
        inst == IF search /\ found # {}
                THEN organizations[CHOOSE i \in found :
                                       \A j \in found : i <= j]
                ELSE installation
    IN  IF search /\ found = {}
        THEN [installation |-> inst, repositories |-> <<>>,
              requests |-> first, render |-> TRUE]
        ELSE IF inst = NoInstallation
        THEN [installation |-> inst, repositories |-> Undefined,
              requests |-> first, render |-> FALSE]
        ELSE [installation |-> inst, repositories |-> Undefined,
              requests |-> first \o <<GetRepositories(inst.id)>>,
              render |-> FALSE]

\* templateRecentProjects() that takes every project naming the organization
RecentOfOrganizationAnywhere ==
    SelectSeq(OrEmpty(storage),
              LAMBDA p : Includes(p, organization \o "/"))

\* templateRecentProjects(): the recent projects of the organization
RecentOfOrganization ==
    SelectSeq(OrEmpty(storage),
              LAMBDA p : StartsWith(p, organization \o "/"))

\* templateRepositories() without the reset of the cached list
KeptRepositoriesAlways == repositories

\* the repositories templateRepositories() keeps from the cache
KeptRepositories ==
    IF /\ repositories # Undefined
       /\ repositoriesId # NoId
       /\ InstallationId(installation) # repositoriesId
    THEN Undefined
    ELSE repositories

TemplateRepositories ==
    LET kept == KeptRepositories
        load == IF kept = Undefined THEN LoadRepositories
                ELSE [installation |-> installation, repositories |-> kept,
                      requests |-> <<>>, render |-> FALSE]
    IN  [installation |-> load.installation,
         repositories |-> load.repositories,
         workspaces |-> workspaces,
         requests |-> load.requests,
         render |-> load.render,
         shown |-> View("repositories", load.repositories,
                        Filtered(load.repositories, "repo"),
                        RecentOfOrganization)]

\* the workspaces templateWorkspaces() keeps from the cache
KeptWorkspaces ==
    IF /\ workspaces # Undefined
       /\ ~Falsy(workspacesId)
       /\ project # workspacesId
    THEN Undefined
    ELSE workspaces

TemplateWorkspaces ==
    LET kept == KeptWorkspaces
    IN  [installation |-> installation, repositories |-> repositories,
         workspaces |-> kept,
         requests |-> IF kept = Undefined
                      THEN <<GetWorkspaces(organization, project)>>
                      ELSE <<>>,
         render |-> FALSE,
         shown |-> View("workspaces", kept, Filtered(kept, "name"),
                        <<>>)]

Template ==
    IF Step = "login" THEN TemplateLogin
    ELSE IF Step = "organizations" THEN TemplateOrganizations
    ELSE IF Step = "repositories" THEN TemplateRepositories
    ELSE TemplateWorkspaces

(***************************************************************************)
(* The image field (src/unnamed/part_001): the metadata of the medium and  *)
(* what templatePreviewMeta() shows of it.                                 *)
(***************************************************************************)
\* no metadata object
NoMeta == [none |-> TRUE]

\* a width or height that the metadata object does not have
Missing == -1

\* nothing is shown
NoInfo == [none |-> TRUE]

MediaConstructed ==
    [meta |-> NoMeta, stored |-> NoMeta, info |-> NoInfo,
     op |-> "constructor"]

\* n || 1
OrOne(n) == IF n = Missing \/ n = 0 THEN 1 ELSE n

RECURSIVE GreatestCommonDenominator(_, _)
GreatestCommonDenominator(numerator, denominator) ==
    IF denominator # 0
    THEN GreatestCommonDenominator(denominator, numerator % denominator)
    ELSE numerator

\* fractReduce() over a greatestCommonDenominator() that does not recurse
FractReduceOnce(numerator, denominator) ==
    LET fracGcd == IF denominator # 0 THEN denominator ELSE numerator
    IN  << numerator \div fracGcd, denominator \div fracGcd >>

FractReduce(numerator, denominator) ==
    LET fracGcd == GreatestCommonDenominator(numerator, denominator)
    IN  << numerator \div fracGcd, denominator \div fracGcd >>

\* templatePreviewMeta() that takes 1 x 1 when a side is absent or zero
TemplatePreviewMetaSquare(m) ==
    LET meta == IF m.meta = NoMeta THEN m.stored ELSE m.meta
    IN  IF meta = NoMeta
        THEN [m EXCEPT !.info = NoInfo]
        ELSE [m EXCEPT
                 !.meta = meta,
                 !.info = [size |-> << meta.width, meta.height >>,
                           ratio |-> IF OrOne(meta.width) = meta.width
                                        /\ OrOne(meta.height) = meta.height
                                     THEN FractReduce(meta.width,
                                                      meta.height)
                                     ELSE FractReduce(1, 1)]]

\* templatePreviewMeta() of the field m
TemplatePreviewMeta(m) ==
    LET meta == IF m.meta = NoMeta THEN m.stored ELSE m.meta
    IN  IF meta = NoMeta
        THEN [m EXCEPT !.info = NoInfo]
        ELSE [m EXCEPT
                 !.meta = meta,
                 !.info = [size |-> << meta.width, meta.height >>,
                           ratio |-> FractReduce(OrOne(meta.width),
                                                 OrOne(meta.height))]]

(***************************************************************************)
(* DeepClean (src/src/utility/deepClean.ts).  A value is a record          *)
(* (an object: its keys and their values), an array or a scalar.           *)
(***************************************************************************)
Scalar == [scalar |-> "x"]

Rec(fields) == [record |-> fields]

Arr(items) == [array |-> items]

\* DataType.isObject(value), DataType.isArray(value)
IsObject(value) == DOMAIN value = {"record"}

IsArray(value) == DOMAIN value = {"array"}

\* no clean() was called
NotCleaned == [none |-> TRUE]

CleanerConstructed ==
    [config |-> [removeEmptyObjects |-> TRUE], value |-> Scalar,
     result |-> NotCleaned, again |-> NotCleaned, op |-> "constructor"]

RECURSIVE CleanRecord(_, _)
CleanRecord(config, originalValue) ==
    LET Cleaned(key) ==
            IF IsObject(originalValue[key])
            THEN Rec(CleanRecord(config, originalValue[key].record))
            ELSE originalValue[key]
        kept == {key \in DOMAIN originalValue :
                    ~(/\ IsObject(originalValue[key])
                      /\ config.removeEmptyObjects
                      /\ DOMAIN Cleaned(key).record = {})}
    IN  [key \in kept |-> Cleaned(key)]

RECURSIVE CleanArray(_, _)
CleanArray(config, originalValue) ==
    IF Len(originalValue) = 0 THEN <<>>
    ELSE LET newValue == CleanArray(config,
                                    SubSeq(originalValue, 1,
                                           Len(originalValue) - 1))
             value == originalValue[Len(originalValue)]
         IN  IF IsObject(value)
             THEN LET cleaned == Rec(CleanRecord(config, value.record))
                  IN  IF config.removeEmptyObjects
                         /\ DOMAIN cleaned.record = {}
                      THEN newValue
                      ELSE Append(newValue, cleaned)
             ELSE Append(newValue, value)

Clean(config, value) ==
    IF IsObject(value) THEN Rec(CleanRecord(config, value.record))
    ELSE IF IsArray(value) THEN Arr(CleanArray(config, value.array))
    ELSE value

(***************************************************************************)
(* LiveEditor.render() (src/src/editor/editor.ts:76-92).  The editor is    *)
(* the record of its two flags and of the render() calls that have not     *)
(* returned, the outermost first: a call is evaluating the template        *)
(* ("template") or is past it ("tail").  Counters observe the outermost    *)
(* call: the template evaluations started, the evaluations ended during    *)
(* which a render() call was deferred (waves), the render-complete events  *)
(* dispatched, the calls deferred by the evaluation in progress and by     *)
(* all of them (asked); op is the step that ran last.                      *)
(***************************************************************************)
EditorConstructed ==
    [isRendering |-> FALSE, isPendingRender |-> FALSE, stack |-> <<>>,
     evaluations |-> 0, waves |-> 0, completed |-> 0, deferred |-> 0,
     asked |-> 0, op |-> "constructor"]

\* an outermost call starts a render: the counters observe it alone
Observed(e) ==
    [e EXCEPT !.evaluations = 0, !.waves = 0, !.completed = 0,
              !.deferred = 0, !.asked = 0]

\* render() without the test of isRendering
EnterNested(e) ==
    [e EXCEPT !.isPendingRender = FALSE,
              !.isRendering = TRUE,
              !.stack = Append(@, "template"),
              !.evaluations = @ + 1,
              !.deferred = 0]

\* render() that leaves isPendingRender as it is when it starts
EnterKeepsPending(e) ==
    IF e.isRendering
    THEN [e EXCEPT !.isPendingRender = TRUE, !.deferred = @ + 1,
                   !.asked = @ + 1]
    ELSE [e EXCEPT !.isRendering = TRUE,
                   !.stack = Append(@, "template"),
                   !.evaluations = @ + 1,
                   !.deferred = 0]

\* render() up to the evaluation of the template: the call is deferred and
\* returns when a render is in progress, else it starts one
Enter(e) ==
    IF e.isRendering
    THEN [e EXCEPT !.isPendingRender = TRUE, !.deferred = @ + 1,
                   !.asked = @ + 1]
    ELSE [e EXCEPT !.isPendingRender = FALSE,
                   !.isRendering = TRUE,
                   !.stack = Append(@, "template"),
                   !.evaluations = @ + 1,
                   !.deferred = 0]

\* the calls past their template return, the innermost first
RECURSIVE DropTails(_)
DropTails(stack) ==
    IF stack # <<>> /\ stack[Len(stack)] = "tail"
    THEN DropTails(SubSeq(stack, 1, Len(stack) - 1))
    ELSE stack

Evaluating(e) == e.stack # <<>> /\ e.stack[Len(e.stack)] = "template"

(***************************************************************************)
(* The initial state: the part is constructed and a first render is due.   *)
(***************************************************************************)
NoView ==
    [view |-> "none", organization |-> Undefined, project |-> Undefined,
     loading |-> FALSE, list |-> Undefined, items |-> <<>>,
     useFilter |-> FALSE, empty |-> FALSE, recent |-> <<>>]

Handler(op, name, events) == [op |-> op, name |-> name, events |-> events]

\* the initial history entry was pushed by no selection
NotPushed ==
    [pushed |-> FALSE, organization |-> Undefined, project |-> Undefined,
     branch |-> Undefined]

\* the part as constructed
Constructed ==
    /\ auth \in BOOLEAN
    /\ \E id \in InitialIdentities :
          /\ organization = id.organization
          /\ project = id.project
          /\ entries = << IF id.state = "kept"
                          THEN Entry(id.organization, id.project, Undefined)
                          ELSE Entry(Undefined, Undefined, Undefined) >>
    /\ branch = "main"
    /\ organizations = Undefined
    /\ installation = NoInstallation
    /\ listFilter = Undefined
    /\ repositories = Undefined
    /\ repositoriesId = NoId
    /\ workspaces = Undefined
    /\ workspacesId = Undefined
    /\ cursor = 1
    /\ pending = [r \in Requests |-> 0]
    /\ renderRequested = TRUE
    /\ shown = NoView
    /\ last = Handler("constructor", Undefined, 0)
    /\ held = << NotPushed >>
    /\ failed = {}
    /\ editor = EditorConstructed
    /\ cleaner = CleanerConstructed
    /\ uncaught = {}
    /\ media = MediaConstructed
    /\ storage = RecentProjects

Init == Constructed /\ recording = FALSE

\* the part as constructed, its history variables kept
InitRecorded == Constructed /\ recording = TRUE

\* the handlers of the user's events
UserEvents ==
    {"authenticate", "handleFilterInput", "handlePopstate",
     "selectOrganization", "selectRepository", "selectRecentProject",
     "selectWorkspace"}

\* the handlers that push a history entry
Selections ==
    {"selectOrganization", "selectRepository", "selectRecentProject",
     "selectWorkspace"}

\* the history variables follow the step; the editor's own render() is not
\* part of it, and the part writes nothing to storage
RecordedEvent ==
    /\ held' = IF recording /\ last'.op \in Selections
               THEN Append(SubSeq(held, 1, cursor),
                           [pushed |-> TRUE, organization |-> organization',
                            project |-> project', branch |-> branch'])
               ELSE held
    /\ failed' = IF ~recording THEN failed
                 ELSE IF last'.op = "catch" THEN failed \cup {last'.name}
                 ELSE IF last'.op \in UserEvents THEN {}
                 ELSE failed
    /\ UNCHANGED <<editor, storage, media, cleaner, recording>>

\* the handler ran to its end
Recorded == RecordedEvent /\ UNCHANGED uncaught

(***************************************************************************)
(* The render: LiveEditor.render() evaluates the template.                 *)
(***************************************************************************)
Render ==
    /\ renderRequested
    /\ \E t \in {Template} :
           /\ InFlight + Len(t.requests) <= MaxPending
           /\ pending' = Issue(t.requests)
           /\ installation' = t.installation
           /\ repositories' = t.repositories
           /\ workspaces' = t.workspaces
           /\ renderRequested' = t.render
           /\ shown' = t.shown
    /\ last' = Handler("render", Undefined, 0)
    /\ UNCHANGED <<auth, organization, project, branch, organizations,
                   listFilter, repositoriesId, workspacesId, entries, cursor>>
    /\ Recorded

(***************************************************************************)
(* The handlers of the user's events.  They act on the view as rendered.   *)
(***************************************************************************)
\* the api's authentication completes (triggerAuth and what follows it)
Authenticate ==
    /\ ~renderRequested
    /\ shown.view = "login"
    /\ auth' = TRUE
    /\ renderRequested' = TRUE
    /\ last' = Handler("authenticate", Undefined, 0)
    /\ UNCHANGED <<organization, project, branch, organizations, installation,
                   listFilter, repositories, repositoriesId, workspaces,
                   workspacesId, entries, cursor, pending, shown>>
    /\ Recorded

HandleFilterInput(value) ==
    /\ ~renderRequested
    /\ shown.useFilter
    /\ listFilter' = value
    /\ renderRequested' = TRUE
    /\ last' = Handler("handleFilterInput", value, 0)
    /\ UNCHANGED <<auth, organization, project, branch, organizations,
                   installation, repositories, repositoriesId, workspaces,
                   workspacesId, entries, cursor, pending, shown>>
    /\ Recorded

\* state.checkOnboarding(): the step is recomputed and rendered
CheckOnboarding == renderRequested' = TRUE

\* handlePopstate() that keeps the branch when the entry has none
HandlePopstateKeepsBranch(to) ==
    /\ ~renderRequested
    /\ to \in 1..Len(entries)
    /\ to # cursor
    /\ cursor' = to
    /\ organization' = OrUndefined(entries[to].organization)
    /\ project' = OrUndefined(entries[to].repository)
    /\ branch' = IF Falsy(entries[to].branch) THEN branch
                 ELSE entries[to].branch
    /\ renderRequested' = TRUE
    /\ last' = Handler("handlePopstate", Undefined, 0)
    /\ UNCHANGED <<auth, organizations, installation, listFilter,
                   repositories, repositoriesId, workspaces, workspacesId,
                   entries, pending, shown>>
    /\ Recorded

HandlePopstate(to) ==
    /\ ~renderRequested
    /\ to \in 1..Len(entries)
    /\ to # cursor
    /\ cursor' = to
    /\ IF entries[to] = NoState
       THEN \* evt.state.onboarding of null: a TypeError ends the handler
            /\ uncaught' = uncaught \cup {"TypeError"}
            /\ UNCHANGED <<organization, project, branch, renderRequested>>
       ELSE /\ UNCHANGED uncaught
            /\ IF entries[to].onboarding = TRUE
               THEN /\ organization' = OrUndefined(entries[to].organization)
                    /\ project' = OrUndefined(entries[to].repository)
                    /\ branch' = OrUndefined(entries[to].branch)
                    /\ CheckOnboarding
               ELSE UNCHANGED <<organization, project, branch,
                                renderRequested>>
    /\ last' = Handler("handlePopstate", Undefined, 0)
    /\ UNCHANGED <<auth, organizations, installation, listFilter,
                   repositories, repositoriesId, workspaces, workspacesId,
                   entries, pending, shown>>
    /\ RecordedEvent

\* the click handler of an organization of the list
SelectOrganization(i) ==
    /\ ~renderRequested
    /\ shown.view = "organizations"
    /\ i \in 1..Len(shown.items)
    /\ LET org == shown.items[i]
       IN  /\ organization' = org.org
           /\ installation' = org
           /\ listFilter' = Undefined
           /\ PushState(Entry(org.org, Undefined, Undefined))
           /\ last' = Handler("selectOrganization", org.org, 0)
    /\ renderRequested' = TRUE
    /\ UNCHANGED <<auth, project, branch, organizations, repositories,
                   repositoriesId, workspaces, workspacesId, pending, shown>>
    /\ Recorded

\* handleClick of a repository of the list
SelectRepository(i) ==
    /\ ~renderRequested
    /\ shown.view = "repositories"
    /\ i \in 1..Len(shown.items)
    /\ LET repo == shown.items[i]
       IN  /\ project' = repo.repo
           /\ listFilter' = Undefined
           /\ PushState(Entry(organization, repo.repo, Undefined))
           /\ last' = Handler("selectRepository", repo.repo, 0)
    /\ renderRequested' = TRUE
    /\ UNCHANGED <<auth, organization, branch, organizations, installation,
                   repositories, repositoriesId, workspaces, workspacesId,
                   pending, shown>>
    /\ Recorded

\* the recent project's click handler without the prefix removed
SelectRecentProjectWhole(i) ==
    /\ ~renderRequested
    /\ shown.view = "repositories"
    /\ i \in 1..Len(shown.recent)
    /\ project' = shown.recent[i]
    /\ listFilter' = Undefined
    /\ PushState(Entry(organization, shown.recent[i], Undefined))
    /\ last' = Handler("selectRecentProject", shown.recent[i], 0)
    /\ renderRequested' = TRUE
    /\ UNCHANGED <<auth, organization, branch, organizations, installation,
                   repositories, repositoriesId, workspaces, workspacesId,
                   pending, shown>>
    /\ Recorded

\* the click handler of a recent project
SelectRecentProject(i) ==
    /\ ~renderRequested
    /\ shown.view = "repositories"
    /\ i \in 1..Len(shown.recent)
    /\ LET repository == RemoveFirst(shown.recent[i], organization \o "/")
       IN  /\ project' = repository
           /\ listFilter' = Undefined
           /\ PushState(Entry(organization, repository, Undefined))
           /\ last' = Handler("selectRecentProject", shown.recent[i], 0)
    /\ renderRequested' = TRUE
    /\ UNCHANGED <<auth, organization, branch, organizations, installation,
                   repositories, repositoriesId, workspaces, workspacesId,
                   pending, shown>>
    /\ Recorded

\* the workspace's click handler with the state pushed before the branch
\* is set, and a render asked for
SelectWorkspaceStale(i) ==
    /\ ~renderRequested
    /\ shown.view = "workspaces"
    /\ i \in 1..Len(shown.items)
    /\ branch' = shown.items[i].name
    /\ PushState(Entry(organization, project, branch))
    /\ last' = Handler("selectWorkspace", shown.items[i].name, 1)
    /\ renderRequested' = TRUE
    /\ UNCHANGED <<auth, organization, project, organizations, installation,
                   listFilter, repositories, repositoriesId, workspaces,
                   workspacesId, pending, shown>>
    /\ Recorded

\* the click handler of a workspace of the list
SelectWorkspace(i) ==
    /\ ~renderRequested
    /\ shown.view = "workspaces"
    /\ i \in 1..Len(shown.items)
    /\ LET workspace == shown.items[i]
       IN  /\ branch' = workspace.name
           /\ PushState(Entry(organization, project, workspace.name))
           /\ last' = Handler("selectWorkspace", workspace.name, 1)
    /\ UNCHANGED <<auth, organization, project, organizations, installation,
                   listFilter, repositories, repositoriesId, workspaces,
                   workspacesId, pending, renderRequested, shown>>
    /\ Recorded

(***************************************************************************)
(* The answers of the api.                                                 *)
(***************************************************************************)
Answered(r) == [pending EXCEPT ![r] = @ - 1]

\* the then-callback of the request r
FetchSucceeds(r) ==
    /\ ~renderRequested
    /\ pending[r] > 0
    /\ pending' = Answered(r)
    /\ IF r.api = "getOrganizations"
       THEN /\ organizations' = Installations
            /\ UNCHANGED <<repositories, repositoriesId, workspaces,
                           workspacesId>>
       ELSE IF r.api = "getRepositories"
       THEN /\ repositories' = RepositoriesOf(r.id)
            /\ repositoriesId' = InstallationId(installation)
            /\ UNCHANGED <<organizations, workspaces, workspacesId>>
       ELSE /\ workspaces' = WorkspacesOf(r.organization, r.project)
            /\ workspacesId' = project
            /\ UNCHANGED <<organizations, repositories, repositoriesId>>
    /\ renderRequested' = TRUE
    /\ last' = Handler("then", r, 0)
    /\ UNCHANGED <<auth, organization, project, branch, installation,
                   listFilter, entries, cursor, shown>>
    /\ Recorded

\* a catch-callback that leaves the step whose list failed to load
FetchFailsLeavesStep(r) ==
    /\ ~renderRequested
    /\ pending[r] > 0
    /\ pending' = Answered(r)
    /\ IF r.api = "getWorkspaces" THEN project' = Undefined
       ELSE UNCHANGED project
    /\ renderRequested' = TRUE
    /\ last' = Handler("catch", r, 0)
    /\ UNCHANGED <<auth, organization, branch, organizations,
                   installation, listFilter, repositories, repositoriesId,
                   workspaces, workspacesId, entries, cursor, shown>>
    /\ Recorded

\* the catch-callback of the request r
FetchFails(r) ==
    /\ ~renderRequested
    /\ pending[r] > 0
    /\ pending' = Answered(r)
    /\ last' = Handler("catch", r, 0)
    /\ UNCHANGED <<auth, organization, project, branch, organizations,
                   installation, listFilter, repositories, repositoriesId,
                   workspaces, workspacesId, entries, cursor,
                   renderRequested, shown>>
    /\ Recorded

Next ==
    \/ Render
    \/ Authenticate
    \/ \E value \in FilterInputs : HandleFilterInput(value)
    \/ \E to \in 1..MaxHistory : HandlePopstate(to)
    \/ \E i \in 1..Len(shown.items) : SelectOrganization(i)
    \/ \E i \in 1..Len(shown.items) : SelectRepository(i)
    \/ \E i \in 1..Len(shown.recent) : SelectRecentProject(i)
    \/ \E i \in 1..Len(shown.items) : SelectWorkspace(i)
    \/ \E r \in Requests : FetchSucceeds(r)
    \/ \E r \in Requests : FetchFails(r)

Spec == Init /\ [][Next]_vars

\* the part with the history variables held and failed kept
SpecRecorded == InitRecorded /\ [][Next]_vars

(***************************************************************************)
(* The LiveEditor on its own: render() is called from outside (an event    *)
(* handler) or by the template being evaluated (a part's this.render()     *)
(* dispatches the render event synchronously); the evaluation ends or      *)
(* throws.  The onboarding part stays as constructed.                      *)
(***************************************************************************)
part == <<auth, organization, project, branch, organizations, installation,
          listFilter, repositories, repositoriesId, workspaces, workspacesId,
          entries, cursor, pending, renderRequested, shown, last, held,
          failed, storage, media, uncaught, cleaner, recording>>

InitEditor ==
    /\ Init
    /\ auth = FALSE
    /\ organization = Undefined

\* render() called while no call is in progress
RenderCalled ==
    /\ editor.stack = <<>>
    /\ editor.isRendering => editor.deferred < MaxRequests
    /\ editor' = [Enter(IF editor.isRendering THEN editor
                        ELSE Observed(editor)) EXCEPT !.op = "render"]
    /\ UNCHANGED part

\* render() called by the template that is being evaluated
RenderCalledByTemplate ==
    /\ Evaluating(editor)
    /\ editor.deferred < MaxRequests
    /\ editor.evaluations < MaxRenders
    /\ editor' = [Enter(editor) EXCEPT !.op = "render"]
    /\ UNCHANGED part

\* the evaluation of the template ends: the rest of render()
TemplateEvaluated ==
    /\ Evaluating(editor)
    /\ LET done == [editor EXCEPT
                        !.isRendering = FALSE,
                        !.completed = @ + 1,
                        !.waves = IF editor.deferred > 0 THEN @ + 1 ELSE @,
                        !.stack = [@ EXCEPT ![Len(@)] = "tail"],
                        !.op = "evaluated"]
       IN  IF done.isPendingRender
           THEN /\ done.evaluations < MaxRenders
                /\ editor' = Enter(done)
           ELSE editor' = [done EXCEPT !.stack = DropTails(@)]
    /\ UNCHANGED part

\* the evaluation of the template throws: every call in progress is left
TemplateThrows ==
    /\ Evaluating(editor)
    /\ editor' = [editor EXCEPT !.stack = <<>>, !.op = "thrown"]
    /\ UNCHANGED part

NextEditor ==
    \/ RenderCalled
    \/ RenderCalledByTemplate
    \/ TemplateEvaluated
    \/ TemplateThrows

SpecEditor == InitEditor /\ [][NextEditor]_vars

(***************************************************************************)
(* The list filter on its own: the part is at one of the three list steps  *)
(* with any list of the api loaded (or none) and any text in listFilter;   *)
(* the step is rendered, and texts are typed into the filter input.        *)
(***************************************************************************)
ShortNames == {"ma", "am", "a m", "b"}

\* (ten names: TLC compares a list of as many items as Undefined has
\* characters with it item by item)
LongNames ==
    << "main", "master", "staging", "workspace/a", "workspace/b",
       "workspace/c", "workspace/d", "workspace/e", "workspace/f",
       "workspace/g" >>

\* the display names of the lists: the short ones without repetition, and
\* the long ones around MIN_FILTER_LENGTH
FilterLists ==
    {names \in UNION {[1..n -> ShortNames] : n \in 0..MaxLen} :
        \A i, j \in 1..Len(names) : names[i] = names[j] => i = j}
    \cup {SubSeq(LongNames, 1, n) :
              n \in (MIN_FILTER_LENGTH - 1)..Len(LongNames)}

\* what the user types into the filter input
TypedTexts == {"", " ", "m", "ma", "a ", "/"}

ListSteps == {"organizations", "repositories", "workspaces"}

\* the list of a step with the given display names
RECURSIVE ItemsOf(_, _)
ItemsOf(step, names) ==
    IF Len(names) = 0 THEN <<>>
    ELSE LET n == Len(names)
         IN  Append(ItemsOf(step, SubSeq(names, 1, n - 1)),
                    IF step = "organizations"
                    THEN [org |-> names[n], id |-> n]
                    ELSE IF step = "repositories"
                    THEN [org |-> "acme", repo |-> names[n]]
                    ELSE [name |-> names[n]])

InitFilter ==
    /\ auth = TRUE
    /\ \E step \in ListSteps, loaded \in BOOLEAN, names \in FilterLists :
          \E list \in {IF loaded THEN ItemsOf(step, names) ELSE Undefined} :
              /\ ~loaded => Len(names) = 0
              /\ organization = IF step = "organizations" THEN Undefined
                                ELSE "acme"
              /\ project = IF step = "workspaces" THEN "site" ELSE Undefined
              /\ organizations = IF step = "organizations" THEN list
                                 ELSE Installations
              /\ installation = IF step = "organizations" THEN NoInstallation
                                ELSE Installations[1]
              /\ repositories = IF step = "repositories" THEN list
                                ELSE Undefined
              /\ repositoriesId = IF step = "repositories" /\ loaded
                                  THEN Installations[1].id ELSE NoId
              /\ workspaces = IF step = "workspaces" THEN list ELSE Undefined
              /\ workspacesId = IF step = "workspaces" /\ loaded THEN "site"
                                ELSE Undefined
    /\ listFilter \in TypedTexts \cup {Undefined}
    /\ branch = "main"
    /\ entries = << Entry(organization, project, Undefined) >>
    /\ cursor = 1
    /\ pending = [r \in Requests |-> 0]
    /\ renderRequested = TRUE
    /\ shown = NoView
    /\ last = Handler("constructor", Undefined, 0)
    /\ held = << NotPushed >>
    /\ failed = {}
    /\ editor = EditorConstructed
    /\ recording = FALSE
    /\ cleaner = CleanerConstructed
    /\ uncaught = {}
    /\ media = MediaConstructed
    /\ storage = RecentProjects

NextFilter ==
    \/ Render
    \/ \E value \in TypedTexts : HandleFilterInput(value)

SpecFilter == InitFilter /\ [][NextFilter]_vars

(***************************************************************************)
(* The recent projects on their own: the part is at the repositories step  *)
(* of an organization with any recent projects in storage (or none); the   *)
(* step is rendered and a recent project is clicked.                       *)
(***************************************************************************)
RecentNames ==
    {"acme/site", "acme/blog", "other/app", "other/acme/x", "acmex/a"}

\* the lists of recent projects, without repetition
RecentLists ==
    {SubSeq(names, 1, Len(names)) :
        names \in {f \in UNION {[1..n -> RecentNames] : n \in 0..MaxRecent} :
                      \A i, j \in 1..Len(f) : f[i] = f[j] => i = j}}

InitRecent ==
    /\ auth = TRUE
    /\ organization \in {"acme", "other"}
    /\ project = Undefined
    /\ storage \in RecentLists \/ storage = Undefined
    /\ branch = "main"
    /\ organizations = Installations
    /\ installation = NoInstallation
    /\ listFilter = Undefined
    /\ repositories = Undefined
    /\ repositoriesId = NoId
    /\ workspaces = Undefined
    /\ workspacesId = Undefined
    /\ entries = << Entry(Undefined, Undefined, Undefined) >>
    /\ cursor = 1
    /\ pending = [r \in Requests |-> 0]
    /\ renderRequested = TRUE
    /\ shown = NoView
    /\ last = Handler("constructor", Undefined, 0)
    /\ held = << NotPushed >>
    /\ failed = {}
    /\ editor = EditorConstructed
    /\ recording = FALSE
    /\ cleaner = CleanerConstructed
    /\ uncaught = {}
    /\ media = MediaConstructed

NextRecent ==
    \/ Render
    \/ \E i \in 1..Len(shown.recent) : SelectRecentProject(i)

SpecRecent == InitRecent /\ [][NextRecent]_vars

(***************************************************************************)
(* The image field on its own: the field is constructed with the value of  *)
(* the document, whose _meta is whatever the document holds; its preview   *)
(* meta is rendered, and the previewed image or video loads.               *)
(***************************************************************************)
besideMedia ==
    <<auth, organization, project, branch, organizations, installation,
      listFilter, repositories, repositoriesId, workspaces, workspacesId,
      entries, cursor, pending, renderRequested, shown, last, held,
      failed, storage, editor, uncaught, cleaner, recording>>

\* the sides a loaded medium can have
Dims == 0..MaxDim \cup {16, 1080, 1920}

\* the _meta a document can hold
StoredMetas ==
    {NoMeta} \cup [width : Dims \cup {Missing}, height : Dims \cup {Missing}]

InitMedia ==
    /\ auth = FALSE
    /\ organization = Undefined
    /\ project = Undefined
    /\ storage = RecentProjects
    /\ branch = "main"
    /\ organizations = Undefined
    /\ installation = NoInstallation
    /\ listFilter = Undefined
    /\ repositories = Undefined
    /\ repositoriesId = NoId
    /\ workspaces = Undefined
    /\ workspacesId = Undefined
    /\ entries = << Entry(Undefined, Undefined, Undefined) >>
    /\ cursor = 1
    /\ pending = [r \in Requests |-> 0]
    /\ renderRequested = TRUE
    /\ shown = NoView
    /\ last = Handler("constructor", Undefined, 0)
    /\ held = << NotPushed >>
    /\ failed = {}
    /\ \E stored \in StoredMetas :
          media = [MediaConstructed EXCEPT !.stored = stored]
    /\ editor = EditorConstructed
    /\ recording = FALSE
    /\ cleaner = CleanerConstructed
    /\ uncaught = {}

\* the field is rendered
PreviewMetaRendered ==
    /\ media' = [TemplatePreviewMeta(media) EXCEPT !.op = "template"]
    /\ UNCHANGED besideMedia

\* handlePreviewImageLoad: the natural size of the image
HandlePreviewImageLoad(naturalWidth, naturalHeight) ==
    /\ \E meta \in {[width |-> naturalWidth, height |-> naturalHeight]} :
          media' = [TemplatePreviewMeta([media EXCEPT !.meta = meta,
                                                      !.stored = meta])
                       EXCEPT !.op = "imageLoad"]
    /\ UNCHANGED besideMedia

\* handlePreviewVideoLoad: the size of the video
HandlePreviewVideoLoad(videoWidth, videoHeight) ==
    /\ \E meta \in {[width |-> videoWidth, height |-> videoHeight]} :
          media' = [TemplatePreviewMeta([media EXCEPT !.meta = meta,
                                                      !.stored = meta])
                       EXCEPT !.op = "videoLoad"]
    /\ UNCHANGED besideMedia

NextMedia ==
    \/ PreviewMetaRendered
    \/ \E w, h \in Dims : HandlePreviewImageLoad(w, h)
    \/ \E w, h \in Dims : HandlePreviewVideoLoad(w, h)

SpecMedia == InitMedia /\ [][NextMedia]_vars

(***************************************************************************)
(* The session history with entries the part did not push: while the part  *)
(* is on the page, a fragment navigation adds an entry with no state       *)
(* object, and another script's pushState one with a state object of its   *)
(* own; the popstate listener of the part is called for every entry of the *)
(* document.                                                               *)
(***************************************************************************)
ForeignNavigation(state) ==
    /\ ~renderRequested
    /\ PushState(state)
    /\ held' = IF recording
               THEN Append(SubSeq(held, 1, cursor), NotPushed)
               ELSE held
    /\ last' = Handler("navigate", Undefined, 0)
    /\ UNCHANGED <<auth, organization, project, branch, organizations,
                   installation, listFilter, repositories, repositoriesId,
                   workspaces, workspacesId, pending, renderRequested,
                   shown, failed, editor, storage, media, uncaught,
                   cleaner, recording>>

InitHistory == Init /\ auth = TRUE

NextHistory ==
    \/ Render
    \/ \E state \in {NoState, ForeignState} : ForeignNavigation(state)
    \/ \E to \in 1..MaxHistory : HandlePopstate(to)
    \/ \E i \in 1..Len(shown.items) : SelectOrganization(i)
    \/ \E r \in Requests : FetchSucceeds(r)

SpecHistory == InitHistory /\ [][NextHistory]_vars

(***************************************************************************)
(* The part when every request is answered: no catch-callback runs, a      *)
(* render that was asked for is made, and the answer of a request in       *)
(* flight arrives.                                                         *)
(***************************************************************************)
NextProgress ==
    \/ Render
    \/ Authenticate
    \/ \E value \in FilterInputs : HandleFilterInput(value)
    \/ \E to \in 1..MaxHistory : HandlePopstate(to)
    \/ \E i \in 1..Len(shown.items) : SelectOrganization(i)
    \/ \E i \in 1..Len(shown.items) : SelectRepository(i)
    \/ \E i \in 1..Len(shown.recent) : SelectRecentProject(i)
    \/ \E i \in 1..Len(shown.items) : SelectWorkspace(i)
    \/ \E r \in Requests : FetchSucceeds(r)

SpecProgress ==
    /\ Init
    /\ [][NextProgress]_vars
    /\ WF_vars(Render)
    /\ \A r \in Requests : WF_vars(FetchSucceeds(r))

(***************************************************************************)
(* The part constructed on a page of an organization: the api holds the    *)
(* organization, and the history entry of the page has no state object     *)
(* yet, so the constructor marks it with onboarding: true and nothing      *)
(* else.                                                                   *)
(***************************************************************************)
OpenedAt == [organization |-> "zeta", project |-> Undefined]

InitOpened ==
    /\ Init
    /\ organization = OpenedAt.organization
    /\ project = OpenedAt.project

SpecOpened == InitOpened /\ [][Next]_vars

(***************************************************************************)
(* DeepClean on its own: a cleaner is constructed with a config, clean()   *)
(* is called with a value, and clean() is called with what it returned.    *)
(***************************************************************************)
besideCleaner ==
    <<auth, organization, project, branch, organizations, installation,
      listFilter, repositories, repositoriesId, workspaces, workspacesId,
      entries, cursor, pending, renderRequested, shown, last, held,
      failed, storage, editor, media, uncaught, recording>>

\* the values without children
Leaves == {Scalar, Rec([key \in {} |-> Scalar]), Arr(<<>>)}

\* the values nested up to d deep: records of one key and arrays of one
\* item over the values nested up to d - 1 deep, and records of two keys
\* and arrays of two items over the values without children
RECURSIVE ValuesOfDepth(_)
ValuesOfDepth(d) ==
    IF d = 0 THEN Leaves
    ELSE LET below == ValuesOfDepth(d - 1)
         IN  Leaves
             \cup {Rec([key \in {"a"} |-> x]) : x \in below}
             \cup {Arr(<< x >>) : x \in below}
             \cup {Rec([a |-> x, b |-> y]) : x \in Leaves, y \in Leaves}
             \cup {Arr(<< x, y >>) : x \in Leaves, y \in Leaves}

InitClean ==
    /\ auth = FALSE
    /\ organization = Undefined
    /\ project = Undefined
    /\ storage = RecentProjects
    /\ branch = "main"
    /\ organizations = Undefined
    /\ installation = NoInstallation
    /\ listFilter = Undefined
    /\ repositories = Undefined
    /\ repositoriesId = NoId
    /\ workspaces = Undefined
    /\ workspacesId = Undefined
    /\ entries = << Entry(Undefined, Undefined, Undefined) >>
    /\ cursor = 1
    /\ pending = [r \in Requests |-> 0]
    /\ renderRequested = TRUE
    /\ shown = NoView
    /\ last = Handler("constructor", Undefined, 0)
    /\ held = << NotPushed >>
    /\ failed = {}
    /\ editor = EditorConstructed
    /\ recording = FALSE
    /\ media = MediaConstructed
    /\ uncaught = {}
    /\ \E removeEmptyObjects \in BOOLEAN, value \in ValuesOfDepth(MaxDepth) :
          cleaner = [CleanerConstructed EXCEPT
                        !.config = [removeEmptyObjects |-> removeEmptyObjects],
                        !.value = value]

\* clean(value)
CleanCalled ==
    /\ cleaner.op = "constructor"
    /\ cleaner' = [cleaner EXCEPT
                      !.result = Clean(cleaner.config, cleaner.value),
                      !.op = "clean"]
    /\ UNCHANGED besideCleaner

\* clean(clean(value))
CleanCalledAgain ==
    /\ cleaner.op = "clean"
    /\ cleaner' = [cleaner EXCEPT
                      !.again = Clean(cleaner.config, cleaner.result),
                      !.op = "cleanAgain"]
    /\ UNCHANGED besideCleaner

NextClean == CleanCalled \/ CleanCalledAgain

SpecClean == InitClean /\ [][NextClean]_vars

(***************************************************************************)
(* Properties.                                                             *)
(***************************************************************************)
\* the view is the one of the state: no render is due
Rendered == ~renderRequested /\ shown.view # "none"

\* the installation id getOrganizations() gives for an organization name
HasInstallation(org) ==
    \E i \in 1..Len(Installations) : Installations[i].org = org

InstallationIdOf(org) ==
    Installations[CHOOSE i \in 1..Len(Installations) :
                      Installations[i].org = org].id

\* C1: template() selects exactly one view, by the identity alone: login
\* when checkAuth() is false, else organizations when no organization is
\* set, else repositories when no project is set, else workspaces; the
\* lists, the installation, the filter and the branch play no part.
C1_ViewByIdentity ==
    Rendered =>
        /\ shown.view \in {"login", "organizations", "repositories",
                           "workspaces"}
        /\ shown.view = "login" <=> ~auth
        /\ shown.view = "organizations" <=> auth /\ Falsy(organization)
        /\ shown.view = "repositories" <=>
               auth /\ ~Falsy(organization) /\ Falsy(project)
        /\ shown.view = "workspaces" <=>
               auth /\ ~Falsy(organization) /\ ~Falsy(project)

\* C1 witness: the organizations view is rendered while a repository list
\* and a workspace list are cached, a filter is typed and an installation
\* is remembered.
C1_Witness ==
    /\ Rendered
    /\ shown.view = "organizations"
    /\ repositories # Undefined
    /\ workspaces # Undefined
    /\ installation # NoInstallation
    /\ listFilter # Undefined

\* C2: a repository list the repositories view renders is the answer of
\* getRepositories for the installation id of the active organization, or
\* the empty list of an active organization without installation.
C2_RepositoriesOfActiveOrganization ==
    (Rendered /\ shown.view = "repositories" /\ ~shown.loading) =>
        IF HasInstallation(organization)
        THEN shown.list = RepositoriesOf(InstallationIdOf(organization))
        ELSE shown.list = <<>>

\* C3: a workspace list the workspaces view renders is the answer of
\* getWorkspaces for the active organization and project.
C3_WorkspacesOfActiveProject ==
    (Rendered /\ shown.view = "workspaces" /\ ~shown.loading) =>
        shown.list = WorkspacesOf(organization, project)

\* the request r was sent for another organization / project than the
\* active one
Stale(r) ==
    \/ /\ r.api = "getRepositories"
       /\ Step = "repositories"
       /\ HasInstallation(organization)
       /\ r.id # InstallationIdOf(organization)
    \/ /\ r.api = "getWorkspaces"
       /\ Step = "workspaces"
       /\ r.organization # organization \/ r.project # project

\* the list the answer of r stores
AnswerOf(r) ==
    IF r.api = "getRepositories" THEN RepositoriesOf(r.id)
    ELSE WorkspacesOf(r.organization, r.project)

\* C4: the answer of a request sent for a previous selection, arriving
\* after the user moved on, is not rendered for the new selection: the
\* render that follows it shows the list as absent.
C4_LateAnswerNotRendered ==
    [][(last.op = "then" /\ Stale(last.name) /\ last'.op = "render")
          => (shown'.loading \/ shown'.list # AnswerOf(last.name))]_vars

\* C5: while the answer of a request is outstanding, renders send no
\* second request of the same kind: at most one of each is in flight.
C5_OneRequestInFlight == \A r \in Requests : pending[r] <= 1

\* C6: a repository list tagged with installation id X, rendered when the
\* active organization has installation id Y # X, is treated as absent:
\* the render shows the loading placeholder and no repository, and sends
\* getRepositories(Y).
C6_StaleRepositoriesReloaded ==
    [][(/\ Step = "repositories"
        /\ repositories # Undefined
        /\ repositoriesId # NoId
        /\ HasInstallation(organization)
        /\ InstallationIdOf(organization) # repositoriesId
        /\ last'.op = "render")
          => (/\ shown'.view = "repositories"
              /\ shown'.loading
              /\ shown'.items = <<>>
              /\ repositories' = Undefined
              /\ pending'[GetRepositories(InstallationIdOf(organization))]
                    = pending[GetRepositories(InstallationIdOf(organization))]
                      + 1)]_vars

\* C6 witness: the list tagged for acme was dropped by the render for beta,
\* whose repositories are asked for.
C6_Witness ==
    /\ Rendered
    /\ last.op = "render"
    /\ shown.view = "repositories"
    /\ shown.loading
    /\ organization = "beta"
    /\ repositoriesId = InstallationIdOf("acme")
    /\ repositories = Undefined
    /\ pending[GetRepositories(InstallationIdOf("beta"))] = 1

\* C7: a popstate to an entry with onboarding: true overwrites the
\* organization, project and branch by the entry's organization,
\* repository and branch (undefined where the entry has none), whatever
\* they were, and checkOnboarding() is invoked.
C7_PopstateOverwritesIdentity ==
    [][(last'.op = "handlePopstate" /\ entries[cursor'].onboarding = TRUE)
          => (/\ organization' = entries[cursor'].organization
              /\ project' = entries[cursor'].repository
              /\ branch' = entries[cursor'].branch
              /\ renderRequested')]_vars

\* C7 witness: a popstate has replaced a set organization, project and
\* branch by undefined ones.
C7_Witness ==
    /\ last.op = "handlePopstate"
    /\ organization = Undefined
    /\ project = Undefined
    /\ branch = Undefined
    /\ \E i \in 1..Len(entries) : entries[i].repository # Undefined

\* the state pushState() leaves for the new identity
PushedIdentity(br) ==
    /\ cursor' = cursor + 1
    /\ entries' = Append(SubSeq(entries, 1, cursor),
                         [onboarding |-> TRUE,
                          organization |-> organization',
                          repository |-> project',
                          branch |-> br])

\* C8: selecting a listed organization, a listed repository or a recent
\* project sets the organization, respectively the project (the bare
\* repository name), to the selected name, leaves the other fields of the
\* identity, pushes one entry with onboarding: true and the organization
\* and repository of the new identity, and asks for a render.
C8_SelectionSetsIdentity ==
    [][/\ last'.op = "selectOrganization" =>
            /\ \E i \in 1..Len(shown.items) : shown.items[i].org = last'.name
            /\ organization' = last'.name
            /\ project' = project /\ branch' = branch
            /\ PushedIdentity(Undefined)
            /\ renderRequested'
       /\ last'.op = "selectRepository" =>
            /\ \E i \in 1..Len(shown.items) : shown.items[i].repo = last'.name
            /\ project' = last'.name
            /\ organization' = organization /\ branch' = branch
            /\ PushedIdentity(Undefined)
            /\ renderRequested'
       /\ last'.op = "selectRecentProject" =>
            /\ \E i \in 1..Len(shown.recent) : shown.recent[i] = last'.name
            /\ last'.name = organization \o "/" \o project'
            /\ organization' = organization /\ branch' = branch
            /\ PushedIdentity(Undefined)
            /\ renderRequested'
      ]_vars

\* C8 witness: the recent project acme/site was selected while acme was the
\* organization: the project is site and the entry pushed holds both.
C8_Witness ==
    /\ last.op = "selectRecentProject"
    /\ organization = "acme"
    /\ project = "site"
    /\ entries[cursor] = Entry("acme", "site", Undefined)
    /\ renderRequested

\* C9: selecting a workspace sets the branch to its name, pushes an entry
\* equal to the whole identity, dispatches the onboarding-update event
\* once, leaves organization and project, and asks for no render.
C9_WorkspaceSelection ==
    [][last'.op = "selectWorkspace" =>
          /\ \E i \in 1..Len(shown.items) : shown.items[i].name = last'.name
          /\ branch' = last'.name
          /\ organization' = organization /\ project' = project
          /\ PushedIdentity(branch')
          /\ last'.events = 1
          /\ renderRequested' = renderRequested
          /\ shown' = shown]_vars

\* C9 witness: the workspace staging of acme/site was selected.
C9_Witness ==
    /\ last.op = "selectWorkspace"
    /\ branch = "staging"
    /\ entries[cursor] = Entry("acme", "site", "staging")
    /\ ~renderRequested

\* C10: right after every selection handler (organization, repository,
\* recent project, workspace) the filter is undefined.
C10_SelectionClearsFilter ==
    last.op \in {"selectOrganization", "selectRepository",
                 "selectRecentProject", "selectWorkspace"}
        => listFilter = Undefined

\* C11: the filter resets whenever the scope changes: after every step that
\* changes the organization or the project (a selection, or a popstate that
\* restores another organization or project) listFilter is undefined.
C11_ScopeChangeClearsFilter ==
    [][(organization' # organization \/ project' # project)
           => listFilter' = Undefined]_vars

\* C12: round trip through history: a popstate to an entry a selection
\* pushed restores exactly the organization, the project and the branch
\* the identity held right after that selection.
C12_PopstateRoundTrip ==
    [][(last'.op = "handlePopstate" /\ held[cursor'].pushed) =>
           /\ organization' = held[cursor'].organization
           /\ project' = held[cursor'].project
           /\ branch' = held[cursor'].branch]_vars

\* C13: popstate is the only way back: no step other than handlePopstate
\* (a selection, a filter input, a render, a fetch's success or failure)
\* changes a set organization or a set project, to undefined or to
\* another value.
C13_OnlyPopstateMovesBack ==
    [][last'.op # "handlePopstate" =>
           /\ ~Falsy(organization) => organization' = organization
           /\ ~Falsy(project) => project' = project]_vars

\* C13 witness: with the organization and the project set, a workspace list
\* request failed: the identity is as it was.
C13_Witness ==
    /\ last.op = "catch"
    /\ last.name.api = "getWorkspaces"
    /\ ~Falsy(organization)
    /\ ~Falsy(project)
    /\ cursor > 1

\* C14: a failed list request is not sent again by itself: as long as the
\* user does nothing (no selection, filter input or navigation) after the
\* catch-callback of a request ran, no step sends that request again,
\* whatever other answers arrive.
C14_FailedRequestNotRetried ==
    [][\A r \in failed : pending'[r] <= pending[r]]_vars

\* the loaded organizations hold no installation of the active organization
NotInstalled ==
    /\ organizations # Undefined
    /\ ~Falsy(organization)
    /\ \A i \in 1..Len(organizations) :
           organizations[i].org # organization

\* C15: when the organizations are loaded and hold no installation whose
\* name is the active organization, the render of the repositories step
\* sets the repository list to the empty list, calls getRepositories for
\* no id, and shows the "no repository access" notice, not the loading
\* placeholder.
C15_NotInstalledShowsNoAccess ==
    [][(last'.op = "render" /\ shown'.view = "repositories"
            /\ NotInstalled) =>
           /\ repositories' # Undefined
           /\ Len(repositories') = 0
           /\ \A r \in Requests :
                  r.api = "getRepositories" => pending'[r] = pending[r]
           /\ shown'.empty
           /\ ~shown'.loading]_vars

\* C15 witness: the organizations arrived, the active organization zeta is
\* not among them, and the repositories step was rendered from an absent
\* list.
C15_Witness ==
    /\ Rendered
    /\ shown.view = "repositories"
    /\ NotInstalled
    /\ organization = "zeta"
    /\ repositories # Undefined
    /\ Len(repositories) = 0
    /\ shown.empty

\* a render() call was made while a render was in progress
CalledWhileRendering == editor'.op = "render" /\ editor.isRendering

\* C16: render() coalesces reentrant calls: a call made while a render is
\* in progress is deferred (isPendingRender, no evaluation); an evaluation
\* during which calls were deferred, however many, is followed at once by
\* exactly one more evaluation, and one without deferred calls by none; a
\* call made while no render is in progress starts exactly one evaluation.
\* The evaluations of a call are one more than the evaluations that
\* deferred a call.
C16_RenderCoalesces ==
    /\ [](editor.evaluations > 0 =>
              editor.evaluations = 1 + editor.waves)
    /\ [][/\ CalledWhileRendering =>
                 /\ editor'.isPendingRender
                 /\ editor'.evaluations = editor.evaluations
                 /\ editor'.stack = editor.stack
          /\ (editor'.op = "render" /\ ~editor.isRendering) =>
                 /\ editor'.evaluations = 1
                 /\ editor'.stack = <<"template">>
                 /\ ~editor'.isPendingRender
          /\ (editor'.op = "evaluated" /\ editor.deferred > 0) =>
                 /\ editor'.evaluations = editor.evaluations + 1
                 /\ Evaluating(editor')
                 /\ ~editor'.isPendingRender
          /\ (editor'.op = "evaluated" /\ editor.deferred = 0) =>
                 /\ editor'.evaluations = editor.evaluations
                 /\ editor'.stack = <<>>
                 /\ ~editor'.isRendering]_vars

\* C16 witness: three calls were deferred during the first evaluation, one
\* more evaluation ran, and the call returned.
C16_Witness ==
    /\ editor.op = "evaluated"
    /\ editor.stack = <<>>
    /\ editor.asked = 3
    /\ editor.evaluations = 2
    /\ editor.completed = 2

\* C17: renders never nest: at most one call is evaluating the template,
\* and a render() call made while isRendering is true returns without
\* evaluating the template and without dispatching render-complete.
C17_RendersNeverNest ==
    /\ [](Cardinality({i \in 1..Len(editor.stack) :
                          editor.stack[i] = "template"}) <= 1)
    /\ [][CalledWhileRendering =>
              /\ editor'.stack = editor.stack
              /\ editor'.evaluations = editor.evaluations
              /\ editor'.completed = editor.completed]_vars

\* C17 witness: the template being evaluated called render(), and the call
\* returned to it.
C17_Witness ==
    /\ editor.op = "render"
    /\ Evaluating(editor)
    /\ editor.deferred = 1
    /\ editor.isPendingRender
    /\ Len(editor.stack) = 1

\* C18: the organizations are loaded once and never invalidated: once
\* this.organizations is stored no step (selection, popstate, render,
\* answer of another request) makes it absent again, and no step calls
\* getOrganizations.
C18_OrganizationsKept ==
    [][organizations # Undefined =>
           /\ organizations' # Undefined
           /\ pending'[GetOrganizations] <= pending[GetOrganizations]]_vars

\* C18 witness: the organizations are stored, an organization was selected
\* and left again by popstate, and the organizations step is rendered from
\* the stored list with no request in flight.
C18_Witness ==
    /\ Rendered
    /\ last.op = "render"
    /\ shown.view = "organizations"
    /\ organizations # Undefined
    /\ installation # NoInstallation
    /\ InFlight = 0

\* the field of an item of the rendered step that holds its display name
NameShown ==
    IF shown.view = "organizations" THEN "org"
    ELSE IF shown.view = "repositories" THEN "repo"
    ELSE "name"

\* a list step is rendered from a loaded list
ListRendered == Rendered /\ shown.view \in ListSteps /\ shown.list # Undefined

\* the position of an item in a list without repetition
PositionIn(list, x) == CHOOSE i \in 1..Len(list) : list[i] = x

\* items is the subsequence of list, in the order of list, of exactly the
\* items whose display name contains f
ExactlyContaining(items, list, name, f) ==
    /\ \A k \in 1..Len(items) : \E i \in 1..Len(list) : list[i] = items[k]
    /\ \A i \in 1..Len(list) :
           Includes(list[i][name], f) <=>
               \E k \in 1..Len(items) : items[k] = list[i]
    /\ \A k, l \in 1..Len(items) :
           k < l => PositionIn(list, items[k]) < PositionIn(list, items[l])

\* C19 as stated: the rendered items are the subsequence of the loaded
\* list of exactly the items whose display name contains the typed filter
\* string; an empty or undefined filter gives the whole list; filtering
\* the result again gives it unchanged.
C19_FilterExactlyContaining ==
    ListRendered =>
        /\ IF Falsy(listFilter) THEN shown.items = shown.list
           ELSE ExactlyContaining(shown.items, shown.list, NameShown,
                                  listFilter)
        /\ Filtered(shown.items, NameShown) = shown.items

\* C19, amended: the same, where a filter of white space only gives the
\* whole list like the empty and the undefined one.
C19_FilterContainingUnlessBlank ==
    ListRendered =>
        /\ IF Falsy(listFilter) \/ IsBlank(listFilter)
           THEN shown.items = shown.list
           ELSE ExactlyContaining(shown.items, shown.list, NameShown,
                                  listFilter)
        /\ Filtered(shown.items, NameShown) = shown.items

\* C19 witness: a list of two items is rendered with a filter that only
\* the second of them contains.
C19_Witness ==
    /\ ListRendered
    /\ listFilter = "ma"
    /\ Len(shown.list) = 2
    /\ Len(shown.items) = 1
    /\ shown.items[1] = shown.list[2]

\* the list of the rendered step
ListOfStep ==
    IF shown.view = "organizations" THEN organizations
    ELSE IF shown.view = "repositories" THEN repositories
    ELSE workspaces

\* C20: the filter input is rendered at a step if and only if the list of
\* the step is loaded and has more than 9 items, whatever the filter
\* leaves of it.
C20_FilterInputByUnfilteredLength ==
    (Rendered /\ shown.view \in ListSteps) =>
        (shown.useFilter <=>
            (ListOfStep # Undefined /\ Len(ListOfStep) > 9))

\* C20 witness: a list of 10 items is rendered with a typed filter that
\* leaves 2 of them, and the filter input is rendered.
C20_Witness ==
    /\ Rendered
    /\ shown.view \in ListSteps
    /\ last.op = "render"
    /\ listFilter = "ma"
    /\ ListOfStep # Undefined
    /\ Len(ListOfStep) = 10
    /\ Len(shown.items) = 2
    /\ shown.useFilter

\* items is the subsequence of list, in the order of list, of exactly the
\* strings that start with p (list is without repetition)
ExactlyPrefixed(items, list, p) ==
    /\ \A k \in 1..Len(items) : \E i \in 1..Len(list) : list[i] = items[k]
    /\ \A i \in 1..Len(list) :
           (Len(p) <= Len(list[i]) /\ SubSeq(list[i], 1, Len(p)) = p) <=>
               \E k \in 1..Len(items) : items[k] = list[i]
    /\ \A k, l \in 1..Len(items) :
           k < l => PositionIn(list, items[k]) < PositionIn(list, items[l])

\* C21: the recent projects panel of the repositories step lists, in the
\* order of storage, exactly the stored entries that start with the active
\* organization and "/"; with no such entry (or nothing stored) the panel
\* is not rendered; the click of an entry sets the project to the entry
\* without that prefix and pushes the history entry of it.
C21_RecentProjectsOfOrganization ==
    /\ []((Rendered /\ shown.view = "repositories") =>
              ExactlyPrefixed(shown.recent, OrEmpty(storage),
                              organization \o "/"))
    /\ [][last'.op = "selectRecentProject" =>
              /\ \E i \in 1..Len(shown.recent) : shown.recent[i] = last'.name
              /\ project' = SubSeq(last'.name, Len(organization) + 2,
                                   Len(last'.name))
              /\ entries'[cursor'].repository = project'
              /\ entries'[cursor'].organization = organization]_vars

\* C21 witness: storage holds acme/site, other/app, acme/blog; the panel of
\* acme showed site and blog, and blog was clicked.
C21_Witness ==
    /\ storage # Undefined
    /\ storage = << "acme/site", "other/app", "acme/blog" >>
    /\ shown.recent = << "acme/site", "acme/blog" >>
    /\ last.op = "selectRecentProject"
    /\ project = "blog"

\* the preview meta of the field shows a size and a ratio
RatioShown == media.op # "constructor" /\ media.info # NoInfo

\* the sides the ratio was computed of are positive integers
PositiveSides == media.meta.width >= 1 /\ media.meta.height >= 1

\* r is a : b in lowest terms
LowestTerms(r, a, b) ==
    /\ r[1] >= 1 /\ r[2] >= 1
    /\ r[1] * b = r[2] * a
    /\ \A k \in 2..r[1] : ~(r[1] % k = 0 /\ r[2] % k = 0)
    /\ \E g \in 1..a : a % g = 0 /\ b % g = 0
                       /\ r = << a \div g, b \div g >>

\* C22: for positive integer sides the ratio shown is the sides divided by
\* their greatest common divisor: it is in lowest terms and equals
\* width : height; 16 x 9 and 1920 x 1080 both give 16:9.
C22_FractReduceLowestTerms ==
    (RatioShown /\ PositiveSides) =>
        /\ LowestTerms(media.info.ratio, media.meta.width, media.meta.height)
        /\ media.info.ratio =
              << media.meta.width
                    \div GreatestCommonDenominator(media.meta.width,
                                                   media.meta.height),
                 media.meta.height
                    \div GreatestCommonDenominator(media.meta.width,
                                                   media.meta.height) >>
        /\ media.meta = [width |-> 16, height |-> 9]
              => media.info.ratio = << 16, 9 >>
        /\ media.meta = [width |-> 1920, height |-> 1080]
              => media.info.ratio = << 16, 9 >>

\* C22 witness: a loaded image of 1920 x 1080 is shown with the ratio 16:9.
C22_Witness ==
    /\ RatioShown
    /\ media.op = "imageLoad"
    /\ media.meta = [width |-> 1920, height |-> 1080]
    /\ media.info.ratio = << 16, 9 >>

\* the metadata is missing or malformed: there is none, or a side is absent
\* or zero
Malformed ==
    /\ media.op # "constructor"
    /\ \/ media.meta = NoMeta
       \/ ~PositiveSides

C24_NoUncaughtError ==
    /\ [](uncaught = {})
    /\ [][(last'.op = "handlePopstate"
           /\ (entries[cursor'] = NoState \/ entries[cursor'] = ForeignState))
          => UNCHANGED <<organization, project, branch>>]_vars

\* C25: a failure inside a render does not disable rendering: when no
\* render() call is in progress, whether the last one returned or its
\* template threw, isRendering is false, and a render() called then
\* evaluates the template.
C25_RenderRecovers ==
    /\ [](Len(editor.stack) = 0 => ~editor.isRendering)
    /\ [][(editor'.op = "render" /\ Len(editor.stack) = 0)
          => Evaluating(editor')]_vars

\* nothing is left to happen unless the user acts: the step is rendered, no
\* render is due and no request is in flight
Settled == Rendered /\ shown.view \in ListSteps /\ InFlight = 0

\* C26: when every request is answered and every render asked for is made,
\* the step the part comes to rest at is not loading and shows the list of
\* the current identity: the organizations, the repositories of the
\* installation of the organization (none without installation), the
\* workspaces of the organization and project; and every answer stores its
\* list and asks for a render.
C26_SettledShowsListOfIdentity ==
    /\ [](Settled =>
            /\ ~shown.loading
            /\ shown.organization = organization
            /\ shown.project = project
            /\ shown.list =
                  IF shown.view = "organizations" THEN Installations
                  ELSE IF shown.view = "workspaces"
                  THEN WorkspacesOf(organization, project)
                  ELSE IF HasInstallation(organization)
                  THEN RepositoriesOf(InstallationIdOf(organization))
                  ELSE <<>>)
    /\ [][last'.op = "then" =>
             /\ renderRequested'
             /\ IF last'.name.api = "getOrganizations"
                THEN organizations' = Installations
                ELSE IF last'.name.api = "getRepositories"
                THEN repositories' = RepositoriesOf(last'.name.id)
                ELSE workspaces' = WorkspacesOf(last'.name.organization,
                                                last'.name.project)]_vars

\* C27: the branch of the identity is defined in every reachable state: it
\* is "main" when the part is constructed, and no selection and no popstate
\* leaves it undefined.
C27_BranchDefined ==
    /\ ~Falsy(branch)
    /\ last.op = "constructor" => branch = "main"

\* C28: a popstate to the initial history entry, the one the constructor
\* marked, restores the identity the part was constructed with: the
\* organization and the project are again what they were at construction.
C28_InitialEntryRestoresIdentity ==
    [][(last'.op = "handlePopstate" /\ cursor' = 1) =>
           /\ organization' = OpenedAt.organization
           /\ project' = OpenedAt.project]_vars

\* C29: a list is never shown filtered without the filter input: whenever a
\* step is rendered from a loaded list with a filter that is not blank, the
\* filter input is rendered, the list having more than 9 items.
C29_FilteredListHasFilterInput ==
    (ListRendered /\ ~Falsy(listFilter) /\ ~IsBlank(listFilter)) =>
        /\ shown.useFilter
        /\ Len(shown.list) > 9

\* the value is an empty object or holds one at some depth
RECURSIVE EmptyObjectIn(_)
EmptyObjectIn(value) ==
    IF IsObject(value)
    THEN \/ DOMAIN value.record = {}
         \/ \E key \in DOMAIN value.record : EmptyObjectIn(value.record[key])
    ELSE IF IsArray(value)
    THEN \E i \in 1..Len(value.array) : EmptyObjectIn(value.array[i])
    ELSE FALSE

\* the value holds an empty object at some depth below the root
EmptyObjectBelow(value) ==
    IF IsObject(value)
    THEN \E key \in DOMAIN value.record : EmptyObjectIn(value.record[key])
    ELSE IF IsArray(value)
    THEN \E i \in 1..Len(value.array) : EmptyObjectIn(value.array[i])
    ELSE FALSE

\* C30: with removeEmptyObjects, what clean() returns holds no empty object
\* at any depth below the root, whatever the nesting of records and arrays
\* of the value, and cleaning it again returns the same.
C30_CleanLeavesNoEmptyObject ==
    (cleaner.op # "constructor" /\ cleaner.config.removeEmptyObjects) =>
        /\ ~EmptyObjectBelow(cleaner.result)
        /\ cleaner.op = "cleanAgain" => cleaner.again = cleaner.result
====
